---- MODULE Spec2Model ----
(***************************************************************************)
(* Model of src/src/storage.rs: RingBufferStorage<T>, ReaderId and         *)
(* StorageIterator.                                                        *)
(*                                                                         *)
(* Vec indices are 0-based in the source and TLA+ sequences are 1-based:   *)
(* index i of `data` is data[i + 1] here.  The element written by the n-th *)
(* single_write since construction is the number n, so that a sequence of  *)
(* elements also tells which writes it came from and in which order.       *)
(***************************************************************************)
EXTENDS Integers, Sequences, FiniteSets, TLC

\* ---------------------------------------------------------------- bounds
\* Largest max_size a storage is constructed with (0 included).
MaxSize == 2
\* Element writes explored after the initial state, beyond max_size of them.
ExtraWrites == 2
\* reset_written = size * 1000 (RingBufferStorage::new).
ResetFactor == 1000

Sizes == 0..MaxSize
\* Longest input handed to a bulk write: one more than the largest capacity.
MaxBulk == MaxSize + 1
\* The caller-held cursors of the model.
Readers == {"A", "B"}
\* TypeId::of::<T>() of the storage's element type, and a foreign TypeId.
TypeOfT == "Test"
TypeIds == {"Test", "Test2"}

VARIABLES
    storage,     \* the RingBufferStorage: data, write_index, max_size, written, reset_written
    reader_ids,  \* Readers -> ReaderId record, or NoReader
    total,       \* ghost: number of single_write calls since construction
    base,        \* ghost: value of total in the initial state
    track,       \* ghost: per cursor, how it was made and total at its last synchronisation
    last         \* the last operation and its result

vars == <<storage, reader_ids, total, base, track, last>>

NoReader == [t |-> "none", read_index |-> 0, written |-> 0]
NoView == [current |-> 0, end |-> 0, started |-> TRUE]
\* origin: how the cursor got its present value (new_reader_id, ReaderId_new
\* or a successful read); at: total at that moment.
NoTrack == [origin |-> "none", at |-> 0, writes |-> "none"]
\* The cursors the caller builds by hand with ReaderId::new.
HandMade == {"B"}

\* ------------------------------------------------------------ the storage

\* RingBufferStorage::new
new(size) ==
    [data |-> <<>>,
     write_index |-> 0,
     max_size |-> size,
     written |-> 0,
     reset_written |-> size * ResetFactor]

\* `self.data[write_index] = data` panics when write_index > data.len().
write_in_bounds(s) == s.write_index <= Len(s.data)

\* Mutant: write_index wraps one slot late.
wrap_write_index_late(write_index, max_size) ==
    IF write_index > max_size THEN 0 ELSE write_index

\* The wrap of write_index in single_write.
wrap_write_index(write_index, max_size) ==
    IF write_index >= max_size THEN 0 ELSE write_index

\* Mutant: the rebase comes one write late.
rebase_written_late(written, reset_written) ==
    IF written > reset_written + 1 THEN 0 ELSE written

\* The rebase of the written counter in single_write.
rebase_written(written, reset_written) ==
    IF written > reset_written THEN 0 ELSE written

\* Mutant: a full buffer is overwritten at slot 0, not at write_index.
single_write_slot0(s, d) ==
    LET write_index == s.write_index
        data1 == IF write_index = Len(s.data)
                 THEN Append(s.data, d)
                 ELSE [s.data EXCEPT ![1] = d]
    IN [s EXCEPT !.data = data1,
                 !.write_index = wrap_write_index(write_index + 1, s.max_size),
                 !.written = rebase_written(s.written + 1, s.reset_written)]

\* RingBufferStorage::single_write
single_write(s, d) ==
    LET write_index == s.write_index
        data1 == IF write_index = Len(s.data)
                 THEN Append(s.data, d)
                 ELSE [s.data EXCEPT ![write_index + 1] = d]
    IN [s EXCEPT !.data = data1,
                 !.write_index = wrap_write_index(write_index + 1, s.max_size),
                 !.written = rebase_written(s.written + 1, s.reset_written)]

\* The first min(n, Len(seq)) elements of seq: Iterator::take.
Take(seq, n) == SubSeq(seq, 1, IF n < Len(seq) THEN n ELSE Len(seq))

\* The loop of iter_write: single_write for each element, in order.
RECURSIVE write_each(_, _)
write_each(s, seq) ==
    IF seq = <<>> THEN [storage |-> s, panic |-> FALSE]
    ELSE IF ~write_in_bounds(s) THEN [storage |-> s, panic |-> TRUE]
    ELSE write_each(single_write(s, Head(seq)), Tail(seq))

\* How many elements iter_write pushes.
iter_write_taken(s, input) == Take(input, s.max_size)

\* Mutant: an input of exactly max_size elements is refused as well.
iter_write_result_strict(s, input) ==
    IF Len(input) < s.max_size \/ Len(input) = 0 THEN "Ok" ELSE "TooLargeWrite"

\* The result of iter_write: the iterator still holds data after the take.
iter_write_result(s, input) ==
    IF Len(input) <= Len(iter_write_taken(s, input)) THEN "Ok" ELSE "TooLargeWrite"

\* RingBufferStorage::iter_write
iter_write(s, input) ==
    LET run == write_each(s, iter_write_taken(s, input))
    IN [storage |-> run.storage,
        result |-> IF run.panic THEN "Panic" ELSE iter_write_result(s, input)]

\* RingBufferStorage::max_size
max_size(s) == s.max_size

\* ------------------------------------------------------------ the cursors

\* ReaderId::new
ReaderId_new(t, reader_index, written) ==
    [t |-> t, read_index |-> reader_index, written |-> written]

\* Mutant: the cursor starts at the beginning of the buffer, not at the
\* write position.
new_reader_id_from_start(s) == ReaderId_new(TypeOfT, 0, 0)

\* RingBufferStorage::new_reader_id
new_reader_id(s) == ReaderId_new(TypeOfT, s.write_index, s.written)

\* ------------------------------------------------------- StorageIterator

\* Mutant: current never wraps to 0.
iter_next_nowrap(it, data) ==
    IF it.started /\ it.current = it.end
    THEN [some |-> FALSE, panic |-> FALSE, item |-> 0, it |-> it]
    ELSE IF it.current >= Len(data)
    THEN [some |-> FALSE, panic |-> TRUE, item |-> 0,
          it |-> [it EXCEPT !.started = TRUE]]
    ELSE [some |-> TRUE, panic |-> FALSE, item |-> data[it.current + 1],
          it |-> [it EXCEPT !.started = TRUE, !.current = it.current + 1]]

\* Mutant: the iterator stops whenever current == end, started or not.
iter_next_stop_at_end(it, data) ==
    IF it.current = it.end
    THEN [some |-> FALSE, panic |-> FALSE, item |-> 0, it |-> it]
    ELSE IF it.current >= Len(data)
    THEN [some |-> FALSE, panic |-> TRUE, item |-> 0,
          it |-> [it EXCEPT !.started = TRUE]]
    ELSE LET current1 == it.current + 1
             current2 == IF current1 = Len(data) /\ it.end /= Len(data)
                         THEN 0 ELSE current1
         IN [some |-> TRUE, panic |-> FALSE, item |-> data[it.current + 1],
             it |-> [it EXCEPT !.started = TRUE, !.current = current2]]

\* StorageIterator::next: [some, panic, item, it].
iter_next(it, data) ==
    IF it.started /\ it.current = it.end
    THEN [some |-> FALSE, panic |-> FALSE, item |-> 0, it |-> it]
    ELSE IF it.current >= Len(data)
    THEN [some |-> FALSE, panic |-> TRUE, item |-> 0,
          it |-> [it EXCEPT !.started = TRUE]]
    ELSE LET current1 == it.current + 1
             current2 == IF current1 = Len(data) /\ it.end /= Len(data)
                         THEN 0 ELSE current1
         IN [some |-> TRUE, panic |-> FALSE, item |-> data[it.current + 1],
             it |-> [it EXCEPT !.started = TRUE, !.current = current2]]

\* Iterator::collect on a StorageIterator, stopped after `fuel` elements:
\* [items, panic, more] where more says the iterator was not exhausted.
RECURSIVE collect(_, _, _)
collect(it, data, fuel) ==
    LET n == iter_next(it, data)
    IN IF n.panic THEN [items |-> <<>>, panic |-> TRUE, more |-> FALSE]
       ELSE IF ~n.some THEN [items |-> <<>>, panic |-> FALSE, more |-> FALSE]
       ELSE IF fuel = 0 THEN [items |-> <<>>, panic |-> FALSE, more |-> TRUE]
       ELSE LET rest == collect(n.it, data, fuel - 1)
            IN [rest EXCEPT !.items = <<n.item>> \o rest.items]

\* ---------------------------------------------------------------- read

\* Mutant: the type check is left out.
reader_valid_any(rid) == TRUE

\* The type check of read.
reader_valid(rid) == rid.t = TypeOfT

\* The usize subtraction(s) of the num_written computation underflow.
num_written_underflows(s, rid) ==
    IF s.written < rid.written
    THEN s.reset_written < rid.written
    ELSE FALSE

\* num_written of read (defined when the subtraction does not underflow).
num_written(s, rid) ==
    IF s.written < rid.written
    THEN s.written + (s.reset_written - rid.written)
    ELSE s.written - rid.written

\* Mutant: the written snapshot of the cursor is not brought up to date.
read_reader_stale(s, rid) == [rid EXCEPT !.read_index = s.write_index]

\* The ReaderId after a read that passed the type check.
read_reader(s, rid) ==
    [rid EXCEPT !.read_index = s.write_index, !.written = s.written]

\* The ReadData of read: [kind, view, lost].
read_data(s, rid) ==
    LET n == num_written(s, rid)
    IN IF n > s.max_size
       THEN [kind |-> "Overflow",
             view |-> [current |-> s.write_index, end |-> s.write_index,
                       started |-> FALSE],
             lost |-> n - s.max_size]
       ELSE [kind |-> "Data",
             view |-> [current |-> rid.read_index, end |-> s.write_index,
                       started |-> (n = 0)],
             lost |-> 0]

\* Mutant: the cursor is brought up to date before the type check.
read_advance_first(s, rid) ==
    IF ~reader_valid(rid)
    THEN [kind |-> "InvalidReader", reader_id |-> read_reader(s, rid),
          view |-> NoView, lost |-> 0]
    ELSE IF num_written_underflows(s, rid)
    THEN [kind |-> "Panic", reader_id |-> rid, view |-> NoView, lost |-> 0]
    ELSE LET rd == read_data(s, rid)
         IN [kind |-> rd.kind, reader_id |-> read_reader(s, rid),
             view |-> rd.view, lost |-> rd.lost]

\* RingBufferStorage::read: [kind, reader_id, view, lost].  An underflowing
\* subtraction aborts the call before the cursor is touched (overflow checks).
read(s, rid) ==
    IF ~reader_valid(rid)
    THEN [kind |-> "InvalidReader", reader_id |-> rid, view |-> NoView, lost |-> 0]
    ELSE IF num_written_underflows(s, rid)
    THEN [kind |-> "Panic", reader_id |-> rid, view |-> NoView, lost |-> 0]
    ELSE LET rd == read_data(s, rid)
         IN [kind |-> rd.kind, reader_id |-> read_reader(s, rid),
             view |-> rd.view, lost |-> rd.lost]

\* ------------------------------------------------- the deprecated wrappers

\* RingBufferStorage::slice_write: iter_write over clones; the slice is kept.
slice_write(s, data) ==
    LET w == iter_write(s, data)
    IN [storage |-> w.storage, result |-> w.result, data |-> data]

\* How many elements iter_write pulls out of its iterator: those it takes,
\* and one more when the iterator still holds data.
iter_write_pulled(s, input) ==
    LET n == Len(iter_write_taken(s, input))
    IN IF Len(input) > n THEN n + 1 ELSE n

\* The Vec once the Drain of data.drain(lo..hi) is dropped: the whole range
\* is removed, the elements the iterator never yielded included.
drain_dropped(data, lo, hi) ==
    SubSeq(data, 1, lo) \o SubSeq(data, hi + 1, Len(data))

\* Mutant: only the elements that iter_write pulled leave the Vec.
drain_vec_write_keep_rest(s, data) ==
    LET w == iter_write(s, data)
    IN [storage |-> w.storage, result |-> w.result,
        data |-> drain_dropped(data, 0, iter_write_pulled(s, data))]

\* RingBufferStorage::drain_vec_write: iter_write over data.drain(..), the
\* Drain dropped when iter_write returns.
drain_vec_write(s, data) ==
    LET w == iter_write(s, data)
    IN [storage |-> w.storage, result |-> w.result,
        data |-> drain_dropped(data, 0, Len(data))]

\* ------------------------------------------------------------ the machine

\* n single writes of the elements from + 1 .. from + n (halving keeps the
\* evaluation shallow).
RECURSIVE write_n(_, _, _)
write_n(s, from, n) ==
    IF n = 0 THEN s
    ELSE IF n = 1 THEN single_write(s, from + 1)
    ELSE LET h == n \div 2
             half == write_n(s, from, h)
         IN IF write_in_bounds(half) THEN write_n(half, from + h, n - h) ELSE half

\* The number of element writes explored from an initial state.
WriteBudget(s) == s.max_size + ExtraWrites

\* The events of the next n writes.
events(from, n) == [i \in 1..n |-> from + i]

NoLast ==
    [op |-> "none", r |-> "none", kind |-> "none", items |-> <<>>, lost |-> 0,
     view |-> NoView, panic |-> FALSE, more |-> FALSE, num_written |-> 0,
     since |-> 0, origin |-> "none", writes |-> "none",
     input |-> <<>>, input_after |-> <<>>, before |-> 0,
     len_before |-> 0, index_before |-> 0]

\* Ghost: what a write does to the record kept for each cursor.  `writes`
\* tells which writes happened since the cursor was created or last read:
\* none, one too large bulk write only, or anything else.
track_write(tr, too_large) ==
    IF tr.origin = "none" THEN tr
    ELSE [tr EXCEPT !.writes = IF tr.writes = "none" /\ too_large
                               THEN "too_large" ELSE "other"]

\* A storage is constructed and, when `early`, a cursor is taken from it at
\* once; then p single writes are made.
InitWith(size, p, early) ==
    /\ storage = write_n(new(size), 0, p)
    /\ reader_ids = [r \in Readers |->
                        IF early /\ r = "A" THEN new_reader_id(new(size))
                        ELSE NoReader]
    /\ track = [r \in Readers |->
                   IF early /\ r = "A"
                   THEN [origin |-> "new_reader_id", at |-> 0,
                         writes |-> IF p = 0 THEN "none" ELSE "other"]
                   ELSE NoTrack]
    /\ total = p
    /\ base = p
    /\ last = NoLast

\* A fresh storage; or one whose cursor A was taken at construction and
\* whose written counter stands two writes below reset_written, so that the
\* writes explored next carry it across its rebase.
Init ==
    \E size \in Sizes :
        \/ InitWith(size, 0, FALSE)
        \/ size > 0 /\ InitWith(size, size * ResetFactor - 2, TRUE)

\* buffer.single_write(d)
SingleWrite ==
    /\ total - base < WriteBudget(storage)
    /\ IF write_in_bounds(storage)
       THEN /\ storage' = single_write(storage, total + 1)
            /\ total' = total + 1
            /\ track' = [r \in Readers |-> track_write(track[r], FALSE)]
            /\ last' = [NoLast EXCEPT !.op = "single_write", !.kind = "Ok",
                                      !.input = events(total, 1), !.before = total,
                                      !.len_before = Len(storage.data),
                                      !.index_before = storage.write_index]
       ELSE /\ last' = [NoLast EXCEPT !.op = "single_write", !.kind = "Panic",
                                      !.input = events(total, 1), !.before = total,
                                      !.len_before = Len(storage.data),
                                      !.index_before = storage.write_index]
            /\ UNCHANGED <<storage, total, track>>
    /\ UNCHANGED <<reader_ids, base>>

\* The effect of a bulk write `w` of `input` made through entry point `op`.
BulkWrite(op, input, w, after) ==
    LET n == Len(iter_write_taken(storage, input))
        count == IF w.result = "Panic" THEN 0 ELSE n
    IN /\ total - base + n <= WriteBudget(storage)
       /\ storage' = w.storage
       /\ total' = total + count
       /\ track' = [r \in Readers |->
                       IF Len(input) = 0 THEN track[r]
                       ELSE track_write(track[r], w.result = "TooLargeWrite")]
       /\ last' = [NoLast EXCEPT !.op = op, !.kind = w.result, !.input = input,
                                 !.input_after = after, !.before = total,
                                 !.len_before = Len(storage.data),
                                 !.index_before = storage.write_index]
       /\ UNCHANGED <<reader_ids, base>>

\* buffer.iter_write(input)
IterWrite ==
    \E n \in 0..MaxBulk :
        LET input == events(total, n)
        IN BulkWrite("iter_write", input, iter_write(storage, input), <<>>)

\* buffer.slice_write(&input)
SliceWrite ==
    \E n \in 0..MaxBulk :
        LET input == events(total, n)
            w == slice_write(storage, input)
        IN BulkWrite("slice_write", input, w, w.data)

\* buffer.drain_vec_write(&mut input)
DrainVecWrite ==
    \E n \in 0..MaxBulk :
        LET input == events(total, n)
            w == drain_vec_write(storage, input)
        IN BulkWrite("drain_vec_write", input, w, w.data)

\* reader_ids[r] = buffer.new_reader_id()
NewReaderId(r) ==
    /\ reader_ids' = [reader_ids EXCEPT ![r] = new_reader_id(storage)]
    /\ track' = [track EXCEPT ![r] = [origin |-> "new_reader_id",
                                       at |-> total, writes |-> "none"]]
    /\ last' = [NoLast EXCEPT !.op = "new_reader_id", !.r = r]
    /\ UNCHANGED <<storage, total, base>>

\* reader_ids[r] = ReaderId::new(t, reader_index, written), by the caller
\* (as tests::test_invalid_reader does).
ReaderIdNew(r) ==
    \E t \in TypeIds, v \in {<<0, 0>>, <<storage.max_size, storage.reset_written>>} :
        /\ reader_ids' = [reader_ids EXCEPT ![r] = ReaderId_new(t, v[1], v[2])]
        /\ track' = [track EXCEPT ![r] = [origin |-> "ReaderId_new",
                                           at |-> total, writes |-> "none"]]
        /\ last' = [NoLast EXCEPT !.op = "ReaderId_new", !.r = r]
        /\ UNCHANGED <<storage, total, base>>

\* Mutant: the read brings every cursor up to date.
read_update_all(rs, r, res) == [q \in DOMAIN rs |-> res.reader_id]

\* The cursors after buffer.read(&mut reader_ids[r]) returned `res`.
read_update(rs, r, res) == [rs EXCEPT ![r] = res.reader_id]

\* buffer.read(&mut reader_ids[r]), the returned view collected at once.
Read(r) ==
    /\ reader_ids[r] /= NoReader
    /\ LET rid == reader_ids[r]
           res == read(storage, rid)
           ok == res.kind \in {"Data", "Overflow"}
           c == IF ok THEN collect(res.view, storage.data, Len(storage.data) + 1)
                ELSE [items |-> <<>>, panic |-> FALSE, more |-> FALSE]
       IN /\ reader_ids' = read_update(reader_ids, r, res)
          /\ track' = [track EXCEPT ![r] =
                          IF ok THEN [origin |-> "read", at |-> total,
                                      writes |-> "none"]
                          ELSE @]
          /\ last' = [NoLast EXCEPT
                         !.op = "read", !.r = r, !.kind = res.kind,
                         !.items = c.items, !.lost = res.lost, !.view = res.view,
                         !.panic = c.panic, !.more = c.more,
                         !.num_written = IF ok THEN num_written(storage, rid) ELSE 0,
                         !.since = total - track[r].at,
                         !.origin = track[r].origin,
                         !.writes = track[r].writes, !.before = total]
    /\ UNCHANGED <<storage, total, base>>

Next ==
    \/ SingleWrite
    \/ IterWrite
    \/ SliceWrite
    \/ DrainVecWrite
    \/ \E r \in Readers : NewReaderId(r)
    \/ \E r \in HandMade : ReaderIdNew(r)
    \/ \E r \in Readers : Read(r)

Spec == Init /\ [][Next]_vars

\* ------------------------------------------------------------ the claims

\* The cursors the claims speak of: returned by new_reader_id of this storage,
\* or brought up to date by a successful read.
Issued == {"new_reader_id", "read"}
BulkOps == {"iter_write", "slice_write", "drain_vec_write"}

\* The last c elements written, oldest first.
LastWritten(c) == [i \in 1..c |-> total - c + i]

\* The elements of a full buffer read circularly from write_index.
Circular(s) ==
    [i \in 1..Len(s.data) |-> s.data[((s.write_index + i - 1) % Len(s.data)) + 1]]

\* C1: a cursor that was created, or last synchronised by a read, k > max_size
\* element writes ago reads the overflow outcome with lost = k - max_size and
\* a view of the last max_size elements written, oldest first.
C1_Lapping ==
    (last.op = "read" /\ last.origin \in Issued /\ last.since > storage.max_size)
        => /\ last.kind = "Overflow"
           /\ last.lost = last.since - storage.max_size
           /\ ~last.panic
           /\ last.items = LastWritten(storage.max_size)

\* C2: a cursor created before any write, read after n <= max_size writes in
\* all, gets the normal outcome and a view of exactly those n elements in
\* write order.
C2_ReadBack ==
    (/\ last.op = "read"
     /\ last.origin = "new_reader_id"
     /\ last.since = total
     /\ total <= storage.max_size)
        => /\ last.kind = "Data"
           /\ ~last.panic
           /\ ~last.more
           /\ last.items = events(0, total)

C2_Witness ==
    /\ last.op = "read"
    /\ last.origin = "new_reader_id"
    /\ last.since = total
    /\ storage.max_size = 2
    /\ total = storage.max_size
    /\ last.kind = "Data"
    /\ last.items = <<1, 2>>

\* C3: a read with a cursor whose previous read succeeded, with no write in
\* between, returns the normal outcome with an empty view.
C3_EmptyReread ==
    (last.op = "read" /\ last.origin = "read" /\ last.since = 0)
        => /\ last.kind = "Data"
           /\ ~last.panic
           /\ last.items = <<>>

C3_Witness ==
    /\ last.op = "read"
    /\ last.origin = "read"
    /\ last.since = 0
    /\ last.kind = "Data"
    /\ last.items = <<>>
    /\ Len(storage.data) = storage.max_size
    /\ storage.max_size = 2
    /\ storage.write_index = 1

\* C4: a bulk write of more than max_size elements writes exactly the first
\* max_size of them, in order, and returns TooLargeWrite; a cursor created
\* right before it then reads exactly those max_size elements.
C4_TooLargeBulkWrite ==
    /\ (last.op \in BulkOps /\ Len(last.input) > storage.max_size)
           => /\ last.kind = "TooLargeWrite"
              /\ total = last.before + storage.max_size
              /\ storage.max_size > 0
                    => Circular(storage) = Take(last.input, storage.max_size)
    /\ (last.op = "read" /\ last.origin = "new_reader_id" /\ last.writes = "too_large")
           => /\ last.kind \in {"Data", "Overflow"}
              /\ ~last.panic
              /\ last.items = LastWritten(storage.max_size)

\* C5: a cursor returned by new_reader_id and read with no write in between
\* gets the normal outcome with an empty view, whatever the buffer holds.
C5_FreshCursor ==
    (last.op = "read" /\ last.origin = "new_reader_id" /\ last.since = 0)
        => /\ last.kind = "Data"
           /\ ~last.panic
           /\ last.items = <<>>

C5_Witness ==
    /\ last.op = "read"
    /\ last.origin = "new_reader_id"
    /\ last.since = 0
    /\ last.kind = "Data"
    /\ last.items = <<>>
    /\ total > storage.max_size
    /\ storage.max_size = 2
    /\ storage.write_index = 1
    /\ total - base > 0

\* C6: a read with a cursor whose type tag is not the storage's element type
\* returns InvalidReader, whatever the storage and the cursor hold.
C6_TypeMismatch ==
    (last.op = "read" /\ reader_ids[last.r].t /= TypeOfT)
        => last.kind = "InvalidReader"

C6_Witness ==
    /\ last.op = "read"
    /\ reader_ids[last.r].t = "Test2"
    /\ last.kind = "InvalidReader"
    /\ reader_ids[last.r].read_index = storage.max_size
    /\ reader_ids[last.r].written = storage.reset_written
    /\ Len(storage.data) = 2

\* C7: a read with one cursor leaves the storage and every other cursor as
\* they were.
C7_ReaderIndependence ==
    [][\A r \in Readers :
          (last'.op = "read" /\ last'.r = r)
              => /\ storage' = storage
                 /\ \A q \in Readers \ {r} : reader_ids'[q] = reader_ids[q]]_vars

C7_Witness ==
    /\ last.op = "read"
    /\ last.r = "A"
    /\ last.kind = "Data"
    /\ Len(last.items) = 1
    /\ reader_ids["B"].t = TypeOfT
    /\ track["B"].origin = "read"
    /\ reader_ids["B"] /= reader_ids["A"]

\* C8: data.len() <= max_size in every state, max_size 0 included, and a write
\* to a buffer holding max_size elements overwrites instead of appending.
C8_LengthInvariant ==
    /\ Len(storage.data) <= storage.max_size
    /\ (last.op = "single_write" /\ last.len_before = storage.max_size)
           => /\ Len(storage.data) = last.len_before
              /\ storage.data[last.index_before + 1] = last.input[1]

\* C9: with max_size = 0 no write or read fails, and a cursor that reads
\* after one or more writes gets the overflow outcome, the writes reported
\* as lost.
C9_CapacityZero ==
    storage.max_size = 0
        => /\ last.kind /= "Panic"
           /\ ~last.panic
           /\ (last.op = "read" /\ last.origin \in Issued /\ last.since > 0)
                 => last.kind = "Overflow" /\ last.lost = last.since

\* C10: no operation aborts: no write indexes past the end of data, no
\* subtraction of read underflows for a cursor of this storage, and every
\* index a returned view dereferences is below data.len(), the view ending.
C10_NoPanic ==
    /\ write_in_bounds(storage)
    /\ last.op \in BulkOps \cup {"single_write"} => last.kind /= "Panic"
    /\ \A r \in Readers :
          track[r].origin \in Issued
              => ~num_written_underflows(storage, reader_ids[r])
    /\ (last.op = "read" /\ last.origin \in Issued)
          => /\ last.kind \in {"Data", "Overflow"}
             /\ ~last.panic
             /\ ~last.more

C10_Witness ==
    /\ last.op = "read"
    /\ last.origin \in Issued
    /\ last.kind = "Overflow"
    /\ Len(last.items) = 2
    /\ total > storage.reset_written
    /\ storage.written < last.num_written

\* The elements the buffer holds.
Held(s) == {s.data[i] : i \in 1..Len(s.data)}

\* C11: drain_vec_write leaves its input Vec empty, when it returns Ok and
\* when it returns TooLargeWrite; in the latter case the elements past the
\* first max_size are gone from the input and are not in the buffer.
C11_DrainEmptiesInput ==
    last.op = "drain_vec_write"
        => /\ last.kind \in {"Ok", "TooLargeWrite"}
           /\ last.input_after = <<>>
           /\ last.kind = "TooLargeWrite"
                 => \A i \in (storage.max_size + 1)..Len(last.input) :
                        last.input[i] \notin Held(storage)

C11_Witness ==
    /\ last.op = "drain_vec_write"
    /\ last.kind = "TooLargeWrite"
    /\ Len(last.input) = 3
    /\ storage.max_size = 1
    /\ last.input_after = <<>>
    /\ Held(storage) = {last.input[1]}

\* C12: a bulk write returns Ok exactly when its input has at most max_size
\* elements, and then the storage is what that many single writes of the
\* input's elements, in order, make of it; a bulk write of no element returns
\* Ok and leaves the storage as it was.
C12_BulkWriteResult ==
    [][last'.op \in BulkOps
          => LET input == last'.input
             IN /\ input = events(total, Len(input))
                /\ last'.kind = "Ok" <=> Len(input) <= storage.max_size
                /\ last'.kind = "Ok"
                      => /\ storage' = write_n(storage, total, Len(input))
                         /\ total' = total + Len(input)
                /\ Len(input) = 0
                      => last'.kind = "Ok" /\ storage' = storage]_vars

C12_Witness ==
    /\ last.op = "iter_write"
    /\ last.kind = "Ok"
    /\ Len(last.input) = 2
    /\ storage.max_size = 2
    /\ last.len_before = 2
    /\ last.index_before = 1
    /\ storage.data = <<last.input[2], last.input[1]>>

\* C13: when fewer than reset_written element writes were made since a
\* cursor was created or last read, the num_written that read computes is
\* the number of those writes, also when written was rebased in between.
C13_RebaseTransparent ==
    (/\ last.op = "read"
     /\ last.origin \in Issued
     /\ last.kind \in {"Data", "Overflow"}
     /\ last.since < storage.reset_written)
        => last.num_written = last.since

\* C14: a cursor that was created, or last read, j <= max_size element
\* writes ago reads the normal outcome and a view of exactly those j
\* elements in write order; j = max_size gives all of them, j = 0 none.
C14_NoSilentLoss ==
    (/\ last.op = "read"
     /\ last.origin \in Issued
     /\ last.since <= storage.max_size)
        => /\ last.kind = "Data"
           /\ ~last.panic
           /\ ~last.more
           /\ last.items = LastWritten(last.since)

\* What the buffer holds after `total` element writes: the last
\* min(total, max_size) of them and, once full, oldest first from write_index.
HoldsLastWritten ==
    LET len == IF total < storage.max_size THEN total ELSE storage.max_size
    IN /\ Len(storage.data) = len
       /\ Held(storage) = (total - len + 1)..total
       /\ len = storage.max_size => Circular(storage) = LastWritten(storage.max_size)

\* C15: for max_size >= 1 the buffer holds exactly the last min(n, max_size)
\* elements written, in circular order from write_index, oldest first, once
\* full; and a write to a full buffer replaces the oldest element and leaves
\* every other slot as it was.
C15_BufferContents ==
    [][storage.max_size >= 1
          => /\ HoldsLastWritten
             /\ HoldsLastWritten'
             /\ (last'.op = "single_write" /\ Len(storage.data) = storage.max_size)
                   => /\ storage.data[storage.write_index + 1] = total - storage.max_size + 1
                      /\ \A i \in 1..storage.max_size :
                            storage'.data[i] = IF i = storage.write_index + 1
                                               THEN last'.input[1]
                                               ELSE storage.data[i]]_vars

C15_Witness ==
    /\ last.op = "single_write"
    /\ storage.max_size = 2
    /\ last.len_before = 2
    /\ last.index_before = 1
    /\ total - base = 4
    /\ storage.data = <<total - 1, total>>
    /\ storage.write_index = 0

\* C16: for max_size >= 1, 0 <= write_index < max_size, write_index is the
\* number of element writes so far modulo max_size, and while the buffer
\* holds fewer than max_size elements write_index is data.len().
C16_WriteIndex ==
    storage.max_size >= 1
        => /\ 0 <= storage.write_index
           /\ storage.write_index < storage.max_size
           /\ storage.write_index = total % storage.max_size
           /\ Len(storage.data) < storage.max_size
                 => storage.write_index = Len(storage.data)

C16_Witness ==
    /\ last.op = "single_write"
    /\ storage.max_size = 2
    /\ base = 0
    /\ total = 3
    /\ last.index_before = 0
    /\ storage.write_index = 1

\* C17: the view returned by a read with a cursor of this storage, traversed
\* before any further write, ends after at most max_size elements; built
\* with started preset and current = end it yields nothing; built with
\* started unset and current = end it yields one full lap of the buffer.
C17_ViewTermination ==
    (/\ last.op = "read"
     /\ last.origin \in Issued
     /\ last.kind \in {"Data", "Overflow"})
        => /\ ~last.more
           /\ ~last.panic
           /\ Len(last.items) <= storage.max_size
           /\ (last.view.started /\ last.view.current = last.view.end)
                 => last.items = <<>>
           /\ (~last.view.started /\ last.view.current = last.view.end)
                 => /\ Len(last.items) = Len(storage.data)
                    /\ last.items = Circular(storage)

C17_Witness ==
    /\ last.op = "read"
    /\ last.origin \in Issued
    /\ last.kind = "Data"
    /\ ~last.view.started
    /\ last.view.current = 1
    /\ last.view.end = 1
    /\ storage.max_size = 2
    /\ Len(last.items) = 2
    /\ last.items = <<storage.data[2], storage.data[1]>>

\* C18: a read that returns InvalidReader leaves the cursor (its read_index
\* and its written snapshot) and the storage as they were.
C18_InvalidReaderFrame ==
    [][(last'.op = "read" /\ last'.kind = "InvalidReader")
          => /\ reader_ids'[last'.r] = reader_ids[last'.r]
             /\ reader_ids' = reader_ids
             /\ storage' = storage]_vars

C18_Witness ==
    /\ last.op = "read"
    /\ last.kind = "InvalidReader"
    /\ storage.max_size = 2
    /\ storage.write_index = 1
    /\ reader_ids[last.r] = ReaderId_new("Test2", 0, 0)
    /\ storage.written > 0

====
